---- MODULE Spec2Model ----
(***************************************************************************)
(* Mailbox-file task dispatch of AgentLink: agent_comm/claude_agent.py     *)
(* (one poll cycle per run of main) and agent_comm/gemini_agent.py (an     *)
(* endless poll loop gated on the file's modification time).               *)
(*                                                                         *)
(* Every system call that touches a mailbox file is one step: open(..,'w') *)
(* truncates at once, the buffered json.dump reaches the file when the     *)
(* file object is closed, at the offset the descriptor kept (0).           *)
(* A write at offset 0 over bytes that another process put there in the    *)
(* meantime replaces a prefix of them (WriteOver).                         *)
(* Modification times are a logical clock that advances with every write   *)
(* to the gemini mailbox (the only file whose mtime the code reads); two   *)
(* writes never share a timestamp.                                         *)
(*                                                                         *)
(* Processes: c1 and c2 are runs of claude_agent.py (c2 only runs in       *)
(* SpecTwo), g1 is the gemini loop.  Senders are the environment.          *)
(*                                                                         *)
(* agent_comm/registry.py is a process of its own that shares nothing with *)
(* the mailboxes: its probes are the steps of RegistrySpec, where the      *)
(* answer of the probed endpoint is the environment's choice.              *)
(***************************************************************************)
EXTENDS Integers, Sequences, FiniteSets, TLC

\* ---------------------------------------------------------------- bounds
MaxDeposits == 2
MaxCrashes == 1

\* ------------------------------------------------------------ identities
Names == {"claude", "gemini", "user"}
NoFrom == "none"
BadPath == "no/dir"
Mailboxes == Names \cup {"None"}
Procs == {"c1", "c2", "g1"}
ClaudeProcs == {"c1", "c2"}
GeminiProcs == {"g1"}

ClaudeQueueFile == "claude"
GeminiQueueFile == "gemini"
QueueFile(p) == IF p \in GeminiProcs THEN GeminiQueueFile ELSE ClaudeQueueFile

ClaudeOutput == "Mocked Claude response: Code refactored successfully."
GeminiOutput == "Mocked Gemini response: Code reviewed and approved."
run_gemini_cli == GeminiOutput

\* registry.py lines 5-8
AGENTS ==
    << [id |-> "claude-agent", endpoint |-> "http://localhost:5000"],
       [id |-> "gemini-agent", endpoint |-> "http://localhost:5001"] >>
AgentIds == {AGENTS[i].id : i \in DOMAIN AGENTS}

\* no key for the agent in REGISTERED_AGENTS
\* no capability list (yet)
NoCaps == <<"none">>
NoEntry == [endpoint |-> "none", capabilities |-> NoCaps, status |-> "none"]

\* ------------------------------------------------------- file contents
\* A file content is a record; tag tells what the bytes are:
\*   absent  no such file            zero     a file of length 0
\*   garbage bytes json.load rejects empty    the document {}
\*   falsy   the document []         nonobj   the document [1]
\*   obj     a JSON object with the fields below ("none": key missing);
\*           rfrom, rto, payload are the members of "result"; neither
\*           agent ever writes an "error" member
Blank == [tag |-> "absent", jsonrpc |-> "none", method |-> "none",
          params |-> "none", from |-> "none", id |-> 0,
          rfrom |-> "none", rto |-> "none", payload |-> "none",
          error |-> "none"]
Absent == Blank
Zero == [Blank EXCEPT !.tag = "zero"]
Garbage == [Blank EXCEPT !.tag = "garbage"]
EmptyObj == [Blank EXCEPT !.tag = "empty"]
FalsyDoc == [Blank EXCEPT !.tag = "falsy"]
NonObjDoc == [Blank EXCEPT !.tag = "nonobj"]

Request(ver, m, f, i) ==
    [Blank EXCEPT !.tag = "obj", !.jsonrpc = ver, !.method = m,
                  !.params = "obj", !.from = f, !.id = i]
BadParamsRequest(i) ==
    [Blank EXCEPT !.tag = "obj", !.jsonrpc = "2.0",
                  !.method = "RequestRefactor", !.params = "nonobj", !.id = i]

\* the response dictionary both agents build
ResponseNoId(self, out, req) ==
    [Blank EXCEPT !.tag = "obj", !.jsonrpc = "2.0", !.rfrom = self,
                  !.rto = req.from, !.payload = out]
Response(self, out, req) ==
    [Blank EXCEPT !.tag = "obj", !.jsonrpc = "2.0", !.rfrom = self,
                  !.rto = req.from, !.payload = out, !.id = req.id]
ClaudeResponse(req) == Response("claude", ClaudeOutput, req)
GeminiResponse(req) == Response("gemini", run_gemini_cli, req)

\* a response file that does not depend on the request
ResponseQueueFileFixed(req) == "user"

\* f"message_queue/inbound_{params.get('from')}.json"
ResponseQueueFile(req) == IF req.from = NoFrom THEN "None" ELSE req.from
\* open(response_queue_file, 'w') fails when the name has a directory part
CanOpen(name) == name \in Mailboxes

\* ----------------------------------------------------- python semantics
\* json.load raises JSONDecodeError
DecodeFails(d) == d.tag \in {"zero", "garbage"}
\* truth value of the loaded document
Truthy(d) == d.tag \in {"nonobj", "obj"}
\* a dispatch that does not look at the method
DispatchAnyMethod(d) ==
    IF DecodeFails(d) THEN "decode_error"
    ELSE IF ~Truthy(d) THEN "ignore"
    ELSE IF d.tag = "nonobj" THEN "attr_error"
    ELSE IF d.jsonrpc # "2.0" THEN "ignore"
    ELSE IF d.params = "nonobj" THEN "attr_error"
    ELSE IF ~CanOpen(ResponseQueueFile(d)) THEN "open_error"
    ELSE "refactor"

\* what the body after json.load does with the loaded document
Dispatch(d) ==
    IF DecodeFails(d) THEN "decode_error"
    ELSE IF ~Truthy(d) THEN "ignore"
    ELSE IF d.tag = "nonobj" THEN "attr_error"
    ELSE IF d.jsonrpc # "2.0" THEN "ignore"
    ELSE IF d.method # "RequestRefactor" THEN "ignore"
    ELSE IF d.params = "nonobj" THEN "attr_error"
    ELSE IF ~CanOpen(ResponseQueueFile(d)) THEN "open_error"
    ELSE "refactor"

\* os.path.exists(f) and os.path.getsize(f) > 0
ExistsNonEmpty(d) == d.tag \notin {"absent", "zero"}

\* bytes left in a file when new is written at offset 0 over old: the
\* write replaces a prefix, so a shorter document leaves a tail behind
WriteOver(old, new) ==
    IF old.tag \in {"absent", "zero"} \/ old = new THEN {new}
    ELSE IF new.tag = "empty"
         THEN IF old.tag = "falsy" THEN {new} ELSE {Garbage}
    ELSE IF old.tag \in {"empty", "falsy", "nonobj"} THEN {new}
    ELSE {new, Garbage}

\* ---------------------------------------------------------------- state
VARIABLES
    file,        \* mailbox name -> content of message_queue/inbound_<name>.json
    mtime,       \* os.path.getmtime of the gemini mailbox (0: absent)
    pc,          \* process -> position in main()
    data,        \* process -> the document json.load returned
    last_modified_time,     \* gemini's watermark
    current_modified_time,  \* gemini's sample of the mtime
    ndep,        \* history: number of deposits made by senders so far
    sent,        \* history: deposit number -> the document deposited
    sentto,      \* history: deposit number -> the mailbox it was put into
    claimed,     \* history: deposit number -> dispatches as a refactor task
    responded,   \* history: deposit number -> responses written complete
    ncrash,      \* history: number of crashes so far
    REGISTERED_AGENTS,  \* registry.py: agent id -> entry (NoEntry: no key)
    rpc,         \* registry.py: position in main()
    agent_info,  \* registry.py: index in AGENTS of the agent probed next
    probed,      \* history: agent id -> outcome of its most recent probe
    fetched      \* history: agent id -> capabilities of its last good card

vars == <<file, mtime, pc, data, last_modified_time, current_modified_time,
          ndep, sent, sentto, claimed, responded, ncrash,
          REGISTERED_AGENTS, rpc, agent_info, probed, fetched>>

rvars == <<REGISTERED_AGENTS, rpc, agent_info, probed, fetched>>
mvars == <<file, mtime, pc, data, last_modified_time, current_modified_time,
           ndep, sent, sentto, claimed, responded, ncrash>>
gvars == <<last_modified_time, current_modified_time>>
hist == <<ndep, sent, sentto, claimed, responded, ncrash>>

\* every write to the gemini mailbox gives it a later modification time
Touched(name) == IF name = GeminiQueueFile THEN mtime + 1 ELSE mtime

Bump(f, i) == IF i \in DOMAIN f THEN [f EXCEPT ![i] = @ + 1] ELSE f

Init ==
    /\ file \in {f \in [Mailboxes -> {Absent, EmptyObj}] :
                    f["user"] = Absent /\ f["None"] = Absent}
    /\ mtime = IF file[GeminiQueueFile] = Absent THEN 0 ELSE 1
    /\ pc = [p \in Procs |-> IF p \in GeminiProcs THEN "g14" ELSE "idle"]
    /\ data = [p \in Procs |-> Blank]
    /\ last_modified_time = 0
    /\ current_modified_time = 0
    /\ ndep = 0
    /\ sent = <<>>
    /\ sentto = <<>>
    /\ claimed = <<>>
    /\ responded = <<>>
    /\ ncrash = 0
    /\ REGISTERED_AGENTS = [a \in AgentIds |-> NoEntry]
    /\ rpc = "r38"
    /\ agent_info = 1
    /\ probed = [a \in AgentIds |-> "none"]
    /\ fetched = [a \in AgentIds |-> NoCaps]

\* ------------------------------------------------------- file operations
\* open(name, 'w'): create or truncate
OpenW(name) ==
    /\ file' = [file EXCEPT ![name] = Zero]
    /\ mtime' = Touched(name)

\* f.seek(0); f.truncate() on the descriptor opened 'r+'
Truncate(name) == OpenW(name)

\* json.dump(doc, f) followed by the close that flushes it
DumpClose(name, doc) ==
    /\ \E c \in WriteOver(file[name], doc) : file' = [file EXCEPT ![name] = c]
    /\ mtime' = Touched(name)

Goto(p, l) == pc' = [pc EXCEPT ![p] = l]
Keep(p, d) == data' = [data EXCEPT ![p] = d]

\* --------------------------------------------------------------- senders
\* what a sender may put into an agent's mailbox as its i-th deposit, with
\* the sender identities it may state in params.from
\* (Zero: a file left empty, as by a writer that is killed between its
\* open(..,'w') and its json.dump)
EnvDocs(i, froms) ==
    {Request("2.0", "RequestRefactor", f, i) : f \in froms \cup {NoFrom, BadPath}}
    \cup {Request("2.0", "Other", "user", i),
          Request("1.0", "RequestRefactor", "user", i),
          Request("none", "RequestRefactor", "user", i),
          BadParamsRequest(i),
          Response("user", "done", Request("2.0", "none", "claude", i)),
          NonObjDoc, FalsyDoc, Garbage, Zero}

IsRefactorRequest(d) ==
    /\ d.tag = "obj" /\ d.jsonrpc = "2.0" /\ d.method = "RequestRefactor"
    /\ d.params = "obj" /\ d.from \in Names

\* a sender replaces the content of an agent's mailbox in one step
Put(to, d) ==
    /\ ndep < MaxDeposits
    /\ file' = [file EXCEPT ![to] = d]
    /\ mtime' = Touched(to)
    /\ ndep' = ndep + 1
    /\ sent' = Append(sent, d)
    /\ sentto' = Append(sentto, to)
    /\ claimed' = Append(claimed, 0)
    /\ responded' = Append(responded, 0)
    /\ UNCHANGED <<pc, data, gvars, ncrash>>
    /\ UNCHANGED rvars

\* any content, from a sender that does not follow the protocol
Deposit ==
    \E to \in {ClaudeQueueFile, GeminiQueueFile} :
    \E d \in EnvDocs(ndep + 1, Names) : Put(to, d)

\* a refactor request, deposited whatever the slot holds
Send ==
    \E to \in {ClaudeQueueFile, GeminiQueueFile} :
    \E f \in Names \cup {BadPath} :
        Put(to, Request("2.0", "RequestRefactor", f, ndep + 1))

\* a request with an agent as its stated sender (or with a name no file
\* can have), deposited whatever the slot holds
Ask ==
    \E to \in {ClaudeQueueFile, GeminiQueueFile} :
    \E f \in {"claude", "gemini", BadPath} :
        Put(to, Request("2.0", "RequestRefactor", f, ndep + 1))

\* an outside sender that waits for the slot to be empty before it deposits
PoliteSend ==
    \E to \in {ClaudeQueueFile, GeminiQueueFile} :
    \E d \in EnvDocs(ndep + 1, {"user"}) :
        /\ file[to] = EmptyObj
        /\ Put(to, d)

\* ---------------------------------------------------------- claude agent
\* line 10: os.path.exists(QUEUE_FILE) and os.path.getsize(QUEUE_FILE) > 0
ClaudeCheck(p) ==
    /\ pc[p] = "idle"
    /\ IF ExistsNonEmpty(file[ClaudeQueueFile]) THEN Goto(p, "c12") ELSE Goto(p, "c66")
    /\ UNCHANGED <<file, mtime, data, gvars, hist>>
    /\ UNCHANGED rvars

\* lines 12-63: open 'r+', json.load, and the dispatch on the document
ClaudeRead(p) ==
    /\ pc[p] = "c12"
    /\ LET d == file[ClaudeQueueFile]
           k == Dispatch(d)
       IN  /\ CASE k = "decode_error" -> Goto(p, "c18") /\ Keep(p, Blank)
                [] k = "refactor" -> Goto(p, "c54") /\ Keep(p, d)
                [] k = "open_error" -> Goto(p, "c54") /\ Keep(p, d)
                [] OTHER -> Goto(p, "idle") /\ Keep(p, Blank)
           /\ claimed' = IF k = "refactor" THEN Bump(claimed, d.id) ELSE claimed
    /\ UNCHANGED <<file, mtime, gvars, ndep, sent, sentto, responded, ncrash>>
    /\ UNCHANGED rvars

\* lines 18-19: f.seek(0); f.truncate()
ClaudeTruncate(p) ==
    /\ pc[p] = "c18"
    /\ Truncate(ClaudeQueueFile)
    /\ Goto(p, "c20")
    /\ UNCHANGED <<data, gvars, hist>>
    /\ UNCHANGED rvars

\* lines 20-22: json.dump({}, f); return (the with block closes f)
ClaudeDumpEmptySkip(p) ==
    /\ pc[p] = "c20"
    /\ Goto(p, "idle")
    /\ UNCHANGED <<file, mtime, data, gvars, hist>>
    /\ UNCHANGED rvars

ClaudeDumpEmpty(p) ==
    /\ pc[p] = "c20"
    /\ DumpClose(ClaudeQueueFile, EmptyObj)
    /\ Goto(p, "idle")
    /\ UNCHANGED <<data, gvars, hist>>
    /\ UNCHANGED rvars

\* line 54: open(response_queue_file, 'w'); FileNotFoundError goes to line 69
ClaudeOpenResponse(p) ==
    /\ pc[p] = "c54"
    /\ IF CanOpen(ResponseQueueFile(data[p]))
       THEN /\ OpenW(ResponseQueueFile(data[p]))
            /\ Goto(p, "c55")
            /\ UNCHANGED data
       ELSE /\ Goto(p, "c71")
            /\ UNCHANGED <<file, mtime, data>>
    /\ UNCHANGED <<gvars, hist>>
    /\ UNCHANGED rvars

\* line 55: json.dump(response, out_f, indent=2)
ClaudeWriteResponse(p) ==
    /\ pc[p] = "c55"
    /\ DumpClose(ResponseQueueFile(data[p]), ClaudeResponse(data[p]))
    /\ responded' = IF file'[ResponseQueueFile(data[p])] = ClaudeResponse(data[p])
                    THEN Bump(responded, data[p].id) ELSE responded
    /\ Goto(p, "c59")
    /\ UNCHANGED data
    /\ UNCHANGED <<gvars, ndep, sent, sentto, claimed, ncrash>>
    /\ UNCHANGED rvars

\* the cycle that ends after the response, with its mailbox left as it is
ClaudeOpenClearSkip(p) ==
    /\ pc[p] = "c59"
    /\ Goto(p, "idle")
    /\ Keep(p, Blank)
    /\ UNCHANGED <<file, mtime, gvars, hist>>
    /\ UNCHANGED rvars

\* line 59: open(QUEUE_FILE, 'w')
ClaudeOpenClear(p) ==
    /\ pc[p] = "c59"
    /\ OpenW(ClaudeQueueFile)
    /\ Goto(p, "c60")
    /\ UNCHANGED <<data, gvars, hist>>
    /\ UNCHANGED rvars

\* line 60: json.dump({}, f_clear)
ClaudeWriteClear(p) ==
    /\ pc[p] = "c60"
    /\ DumpClose(ClaudeQueueFile, EmptyObj)
    /\ Goto(p, "idle")
    /\ Keep(p, Blank)
    /\ UNCHANGED <<gvars, hist>>
    /\ UNCHANGED rvars

\* line 66: open(QUEUE_FILE, 'w') when the file is empty or missing
ClaudeOpenHeal(p) ==
    /\ pc[p] = "c66"
    /\ OpenW(ClaudeQueueFile)
    /\ Goto(p, "c67")
    /\ UNCHANGED <<data, gvars, hist>>
    /\ UNCHANGED rvars

\* line 67: json.dump({}, f)
ClaudeWriteHeal(p) ==
    /\ pc[p] = "c67"
    /\ DumpClose(ClaudeQueueFile, EmptyObj)
    /\ Goto(p, "idle")
    /\ UNCHANGED <<data, gvars, hist>>
    /\ UNCHANGED rvars

\* lines 69-71: except FileNotFoundError: open(QUEUE_FILE, 'w')
ClaudeOpenNotFound(p) ==
    /\ pc[p] = "c71"
    /\ OpenW(ClaudeQueueFile)
    /\ Goto(p, "c72")
    /\ UNCHANGED <<data, gvars, hist>>
    /\ UNCHANGED rvars

\* line 72: json.dump({}, f)
ClaudeWriteNotFound(p) ==
    /\ pc[p] = "c72"
    /\ DumpClose(ClaudeQueueFile, EmptyObj)
    /\ Goto(p, "idle")
    /\ Keep(p, Blank)
    /\ UNCHANGED <<gvars, hist>>
    /\ UNCHANGED rvars

ClaudeStep(p) ==
    \/ ClaudeCheck(p)
    \/ ClaudeRead(p)
    \/ ClaudeTruncate(p)
    \/ ClaudeDumpEmpty(p)
    \/ ClaudeOpenResponse(p)
    \/ ClaudeWriteResponse(p)
    \/ ClaudeOpenClear(p)
    \/ ClaudeWriteClear(p)
    \/ ClaudeOpenHeal(p)
    \/ ClaudeWriteHeal(p)
    \/ ClaudeOpenNotFound(p)
    \/ ClaudeWriteNotFound(p)

\* ---------------------------------------------------------- gemini agent
Sleep(p) == Goto(p, "g14")

\* line 14: os.path.getmtime(QUEUE_FILE) if os.path.exists(QUEUE_FILE) else 0
GeminiStat(p) ==
    /\ pc[p] = "g14"
    /\ current_modified_time' =
          IF file[GeminiQueueFile].tag = "absent" THEN 0 ELSE mtime
    /\ Goto(p, "g16")
    /\ UNCHANGED <<file, mtime, data, last_modified_time, hist>>
    /\ UNCHANGED rvars

\* a gate that also opens when the modification time equals the watermark
GeminiGateAgain(p) ==
    /\ pc[p] = "g16"
    /\ IF /\ current_modified_time >= last_modified_time
          /\ ExistsNonEmpty(file[GeminiQueueFile])
       THEN /\ last_modified_time' = current_modified_time
            /\ Goto(p, "g20")
       ELSE /\ UNCHANGED last_modified_time
            /\ IF file[GeminiQueueFile].tag = "absent"
               THEN Goto(p, "g73") ELSE Sleep(p)
    /\ UNCHANGED <<file, mtime, data, current_modified_time, hist>>
    /\ UNCHANGED rvars

\* lines 16-18 and 71: the gate on the modification time and the size
GeminiGate(p) ==
    /\ pc[p] = "g16"
    /\ IF /\ current_modified_time > last_modified_time
          /\ ExistsNonEmpty(file[GeminiQueueFile])
       THEN /\ last_modified_time' = current_modified_time
            /\ Goto(p, "g20")
       ELSE /\ UNCHANGED last_modified_time
            /\ IF file[GeminiQueueFile].tag = "absent"
               THEN Goto(p, "g73") ELSE Sleep(p)
    /\ UNCHANGED <<file, mtime, data, current_modified_time, hist>>
    /\ UNCHANGED rvars

\* lines 20-70: open 'r+', json.load, and the dispatch on the document
GeminiRead(p) ==
    /\ pc[p] = "g20"
    /\ LET d == file[GeminiQueueFile]
           k == Dispatch(d)
       IN  /\ CASE k = "decode_error" -> Goto(p, "g26") /\ Keep(p, Blank)
                [] k = "refactor" -> Goto(p, "g60") /\ Keep(p, d)
                [] k = "open_error" -> Goto(p, "g60") /\ Keep(p, d)
                [] OTHER -> Sleep(p) /\ Keep(p, Blank)
           /\ claimed' = IF k = "refactor" THEN Bump(claimed, d.id) ELSE claimed
    /\ UNCHANGED <<file, mtime, gvars, ndep, sent, sentto, responded, ncrash>>
    /\ UNCHANGED rvars

\* lines 26-27: f.seek(0); f.truncate()
GeminiTruncate(p) ==
    /\ pc[p] = "g26"
    /\ Truncate(GeminiQueueFile)
    /\ Goto(p, "g28")
    /\ UNCHANGED <<data, gvars, hist>>
    /\ UNCHANGED rvars

\* lines 28-30: json.dump({}, f); continue (the with block closes f)
GeminiDumpEmpty(p) ==
    /\ pc[p] = "g28"
    /\ DumpClose(GeminiQueueFile, EmptyObj)
    /\ Goto(p, "g14")
    /\ UNCHANGED <<data, gvars, hist>>
    /\ UNCHANGED rvars

\* line 60: open(response_queue_file, 'w'); a failure goes to line 77
GeminiOpenResponse(p) ==
    /\ pc[p] = "g60"
    /\ IF CanOpen(ResponseQueueFile(data[p]))
       THEN /\ OpenW(ResponseQueueFile(data[p]))
            /\ Goto(p, "g61")
            /\ UNCHANGED data
       ELSE /\ Sleep(p)
            /\ Keep(p, Blank)
            /\ UNCHANGED <<file, mtime>>
    /\ UNCHANGED <<gvars, hist>>
    /\ UNCHANGED rvars

\* line 61: json.dump(response, out_f, indent=2)
GeminiWriteResponse(p) ==
    /\ pc[p] = "g61"
    /\ DumpClose(ResponseQueueFile(data[p]), GeminiResponse(data[p]))
    /\ responded' = IF file'[ResponseQueueFile(data[p])] = GeminiResponse(data[p])
                    THEN Bump(responded, data[p].id) ELSE responded
    /\ Goto(p, "g65")
    /\ UNCHANGED data
    /\ UNCHANGED <<gvars, ndep, sent, sentto, claimed, ncrash>>
    /\ UNCHANGED rvars

\* line 65: open(QUEUE_FILE, 'w')
GeminiOpenClear(p) ==
    /\ pc[p] = "g65"
    /\ OpenW(GeminiQueueFile)
    /\ Goto(p, "g66")
    /\ UNCHANGED <<data, gvars, hist>>
    /\ UNCHANGED rvars

\* line 66: json.dump({}, f_clear)
GeminiWriteClear(p) ==
    /\ pc[p] = "g66"
    /\ DumpClose(GeminiQueueFile, EmptyObj)
    /\ Goto(p, "g68")
    /\ UNCHANGED <<data, gvars, hist>>
    /\ UNCHANGED rvars

\* line 68: last_modified_time = os.path.getmtime(QUEUE_FILE)
GeminiMarkCleared(p) ==
    /\ pc[p] = "g68"
    /\ last_modified_time' = mtime
    /\ Sleep(p)
    /\ Keep(p, Blank)
    /\ UNCHANGED <<file, mtime, current_modified_time, hist>>
    /\ UNCHANGED rvars

\* line 73: open(QUEUE_FILE, 'w') when the file does not exist
GeminiOpenCreate(p) ==
    /\ pc[p] = "g73"
    /\ OpenW(GeminiQueueFile)
    /\ Goto(p, "g74")
    /\ UNCHANGED <<data, gvars, hist>>
    /\ UNCHANGED rvars

\* line 74: json.dump({}, f)
GeminiWriteCreate(p) ==
    /\ pc[p] = "g74"
    /\ DumpClose(GeminiQueueFile, EmptyObj)
    /\ Goto(p, "g75")
    /\ UNCHANGED <<data, gvars, hist>>
    /\ UNCHANGED rvars

\* line 75: last_modified_time = os.path.getmtime(QUEUE_FILE)
GeminiMarkCreated(p) ==
    /\ pc[p] = "g75"
    /\ last_modified_time' = mtime
    /\ Sleep(p)
    /\ UNCHANGED <<file, mtime, data, current_modified_time, hist>>
    /\ UNCHANGED rvars

GeminiStep(p) ==
    \/ GeminiStat(p)
    \/ GeminiGate(p)
    \/ GeminiRead(p)
    \/ GeminiTruncate(p)
    \/ GeminiDumpEmpty(p)
    \/ GeminiOpenResponse(p)
    \/ GeminiWriteResponse(p)
    \/ GeminiOpenClear(p)
    \/ GeminiWriteClear(p)
    \/ GeminiMarkCleared(p)
    \/ GeminiOpenCreate(p)
    \/ GeminiWriteCreate(p)
    \/ GeminiMarkCreated(p)

\* ------------------------------------------------------ crash and restart
\* the process is killed inside a cycle and started again: main() begins
\* anew, its local variables are lost, the files stay as they are
ClaudeCrash(p) ==
    /\ ncrash < MaxCrashes
    /\ pc[p] # "idle"
    /\ Goto(p, "idle")
    /\ Keep(p, Blank)
    /\ ncrash' = ncrash + 1
    /\ UNCHANGED <<file, mtime, gvars, ndep, sent, sentto, claimed, responded>>
    /\ UNCHANGED rvars

GeminiCrash(p) ==
    /\ ncrash < MaxCrashes
    /\ Goto(p, "g14")
    /\ Keep(p, Blank)
    /\ last_modified_time' = 0
    /\ current_modified_time' = 0
    /\ ncrash' = ncrash + 1
    /\ UNCHANGED <<file, mtime, ndep, sent, sentto, claimed, responded>>
    /\ UNCHANGED rvars

\* ------------------------------------------------------------- registry
\* the capability lists an agent card may carry
Caps == {<< >>, <<"refactor">>, <<"review">>}

\* what the body of a 2xx answer decodes to: an object with or without a
\* "capabilities" member, or a JSON value that is not an object
Card(c) == [tag |-> "obj", has |-> TRUE, capabilities |-> c]
BareCard == [tag |-> "obj", has |-> FALSE, capabilities |-> NoCaps]
NonObjCard == [tag |-> "nonobj", has |-> FALSE, capabilities |-> NoCaps]
Cards == {Card(c) : c \in Caps} \cup {BareCard, NonObjCard}

\* what a probe can meet: requests.get times out or is refused (line 18),
\* raise_for_status meets a non-2xx status (line 19), response.json()
\* cannot decode the body (line 20), or a card is decoded
Outcomes ==
    {[kind |-> k, card |-> NonObjCard] :
        k \in {"timeout", "refused", "status", "badjson"}}
    \cup {[kind |-> "card", card |-> c] : c \in Cards}

\* the exception lines 18-25 raise: Timeout, ConnectionError, HTTPError and
\* requests' JSONDecodeError are RequestExceptions; .get on a value that is
\* not a dict raises AttributeError
Raised(o) ==
    IF o.kind # "card" THEN "RequestException"
    ELSE IF o.card.tag # "obj" THEN "AttributeError"
    ELSE "none"

\* line 23: agent_card.get("capabilities", [])
CardGet(card) ==
    IF card.has THEN card.capabilities ELSE << >>

\* the next position of main's for loop (lines 37-38)
Advance ==
    IF agent_info < Len(AGENTS)
    THEN /\ agent_info' = agent_info + 1
         /\ rpc' = "r38"
    ELSE /\ agent_info' = 1
         /\ rpc' = "r39"

\* the history of the probe of agent a that met outcome o
Probed(a, o) ==
    /\ probed' = [probed EXCEPT ![a] =
                    IF Raised(o) = "none" THEN "ok"
                    ELSE IF o.kind = "card" THEN "nonobj" ELSE o.kind]
    /\ fetched' = IF Raised(o) = "none"
                  THEN [fetched EXCEPT ![a] = CardGet(o.card)]
                  ELSE fetched

\* lines 18-26: the probe succeeds and the entry is stored anew
DiscoverStore ==
    /\ rpc = "r38"
    /\ \E o \in Outcomes :
        /\ Raised(o) = "none"
        /\ REGISTERED_AGENTS' =
              [REGISTERED_AGENTS EXCEPT ![AGENTS[agent_info].id] =
                  [endpoint |-> AGENTS[agent_info].endpoint,
                   capabilities |-> CardGet(o.card),
                   status |-> "active"]]
        /\ Probed(AGENTS[agent_info].id, o)
    /\ Advance
    /\ UNCHANGED mvars

\* lines 27-32: except requests.exceptions.RequestException
DiscoverExcept ==
    /\ rpc = "r38"
    /\ \E o \in Outcomes :
        /\ Raised(o) = "RequestException"
        /\ REGISTERED_AGENTS' =
              IF REGISTERED_AGENTS[AGENTS[agent_info].id] # NoEntry
              THEN [REGISTERED_AGENTS EXCEPT
                        ![AGENTS[agent_info].id].status = "inactive"]
              ELSE REGISTERED_AGENTS
        /\ Probed(AGENTS[agent_info].id, o)
    /\ Advance
    /\ UNCHANGED mvars

\* line 23 raises an exception no handler of discover_agent or main catches:
\* the traceback ends the process
DiscoverRaise ==
    /\ rpc = "r38"
    /\ \E o \in Outcomes :
        /\ Raised(o) = "AttributeError"
        /\ Probed(AGENTS[agent_info].id, o)
    /\ rpc' = "dead"
    /\ UNCHANGED <<REGISTERED_AGENTS, agent_info>>
    /\ UNCHANGED mvars

\* lines 39-42: print the entries, time.sleep(5), next round
Report ==
    /\ rpc = "r39"
    /\ rpc' = "r38"
    /\ UNCHANGED <<REGISTERED_AGENTS, agent_info, probed, fetched>>
    /\ UNCHANGED mvars

\* ------------------------------------------------------- specifications
\* the intended topology: one consumer per mailbox
Consumers == {"c1", "g1"}

Quiet == \A p \in Procs : pc[p] \in {"idle", "g14"}
Alone(p) == \A q \in Procs \ {p} : pc[q] \in {"idle", "g14"}

\* the two consumers and the senders interleave at every file operation
Next ==
    \/ Send
    \/ ClaudeStep("c1")
    \/ GeminiStep("g1")

Spec == Init /\ [][Next]_vars

\* the same, and a consumer may be killed anywhere and started again
CrashNext ==
    \/ Send
    \/ ClaudeStep("c1")
    \/ GeminiStep("g1")
    \/ ClaudeCrash("c1")
    \/ GeminiCrash("g1")

SpecCrash == Init /\ [][CrashNext]_vars

\* two runs of claude_agent.py overlap on the claude mailbox
TwoNext ==
    \/ Send
    \/ \E p \in ClaudeProcs : ClaudeStep(p)

SpecTwo == Init /\ [][TwoNext]_vars

\* poll cycles run one at a time and senders deposit between cycles
SeqNext ==
    \/ Quiet /\ Deposit
    \/ Alone("c1") /\ ClaudeCheck("c1")
    \/ Alone("c1") /\ ClaudeRead("c1")
    \/ Alone("c1") /\ ClaudeTruncate("c1")
    \/ Alone("c1") /\ ClaudeDumpEmpty("c1")
    \/ Alone("c1") /\ ClaudeOpenResponse("c1")
    \/ Alone("c1") /\ ClaudeWriteResponse("c1")
    \/ Alone("c1") /\ ClaudeOpenClear("c1")
    \/ Alone("c1") /\ ClaudeWriteClear("c1")
    \/ Alone("c1") /\ ClaudeOpenHeal("c1")
    \/ Alone("c1") /\ ClaudeWriteHeal("c1")
    \/ Alone("c1") /\ ClaudeOpenNotFound("c1")
    \/ Alone("c1") /\ ClaudeWriteNotFound("c1")
    \/ Alone("g1") /\ GeminiStat("g1")
    \/ Alone("g1") /\ GeminiGate("g1")
    \/ Alone("g1") /\ GeminiRead("g1")
    \/ Alone("g1") /\ GeminiTruncate("g1")
    \/ Alone("g1") /\ GeminiDumpEmpty("g1")
    \/ Alone("g1") /\ GeminiOpenResponse("g1")
    \/ Alone("g1") /\ GeminiWriteResponse("g1")
    \/ Alone("g1") /\ GeminiOpenClear("g1")
    \/ Alone("g1") /\ GeminiWriteClear("g1")
    \/ Alone("g1") /\ GeminiMarkCleared("g1")
    \/ Alone("g1") /\ GeminiOpenCreate("g1")
    \/ Alone("g1") /\ GeminiWriteCreate("g1")
    \/ Alone("g1") /\ GeminiMarkCreated("g1")

SpecSeq == Init /\ [][SeqNext]_vars

\* no crashes, outside senders wait for an empty slot, and each agent keeps
\* being scheduled: claude_agent.py is run again and again, gemini's loop
\* goes on
FairNext ==
    \/ PoliteSend
    \/ ClaudeStep("c1")
    \/ GeminiStep("g1")

FairSpec ==
    /\ Init /\ [][FairNext]_vars
    /\ WF_vars(ClaudeStep("c1"))
    /\ WF_vars(GeminiStep("g1"))

\* the registry process on its own
RegistryNext ==
    \/ DiscoverStore
    \/ DiscoverExcept
    \/ DiscoverRaise
    \/ Report
RegistrySpec == Init /\ [][RegistryNext]_vars

\* both agents keep polling (claude_agent.py is run again and again, the
\* gemini loop never stops) and are asked for tasks in each other's name
LiveNext ==
    \/ Ask
    \/ ClaudeStep("c1")
    \/ GeminiStep("g1")
LiveSpec ==
    /\ Init /\ [][LiveNext]_vars
    /\ WF_vars(ClaudeStep("c1"))
    /\ WF_vars(GeminiStep("g1"))

\* ----------------------------------------------------------- properties
Own(p) == QueueFile(p)
Output(p) == IF p \in GeminiProcs THEN GeminiOutput ELSE ClaudeOutput
AtRest(l) == l \in {"idle", "g14"}
AtRead(l) == l \in {"c12", "g20"}

\* the step that ends a poll cycle of p
CycleEnds(p) == ~AtRest(pc[p]) /\ AtRest(pc'[p]) /\ ncrash' = ncrash

\* the document the cycle of p read (Blank: none, or one that did not parse)
Observed(p) == IF AtRead(pc[p]) THEN file[Own(p)] ELSE data[p]

WellFormed(d) == d.tag = "obj" /\ d.jsonrpc = "2.0"

IsResponseTo(r, req, out) ==
    /\ r.tag = "obj" /\ r.jsonrpc = "2.0" /\ r.method = "none"
    /\ r.error = "none" /\ r.id = req.id /\ r.payload = out

IsError(r, code, i) ==
    /\ r.tag = "obj" /\ r.jsonrpc = "2.0" /\ r.error = code /\ r.id = i

\* C1: every well-formed RequestRefactor request deposited into an agent's
\* mailbox eventually gets exactly one response with its id written into
\* the sender's mailbox: at least one eventually, and never two.
C1_ExactlyOneResponse ==
    /\ \A i \in 1..MaxDeposits :
          (ndep >= i /\ IsRefactorRequest(sent[i]))
             ~> (ndep >= i /\ responded[i] >= 1)
    /\ [](\A i \in DOMAIN responded : responded[i] <= 1)

\* C2: the cycle that observes a well-formed envelope, whatever its method
\* or kind, leaves the agent's mailbox holding the empty sentinel.
C2_ObservedIsCleared ==
    [][\A p \in Consumers :
          CycleEnds(p) /\ WellFormed(Observed(p))
             => file'[Own(p)] = EmptyObj]_vars

\* C3: with two claimants on one mailbox no deposited envelope is taken up
\* as a task by more than one claim.
C3_ClaimedOnce == \A i \in DOMAIN claimed : claimed[i] <= 1

\* C4: a claimant that is about to load its mailbox never finds it
\* truncated to length 0 by a deposit that is still under way.
C4_NeverReadsTruncated ==
    \A p \in Consumers : AtRead(pc[p]) => file[Own(p)].tag # "zero"

\* C5: with one consumer per mailbox that may crash anywhere in a cycle and
\* be restarted, no deposited request gets two responses.
C5_AtMostOnce == \A i \in DOMAIN responded : responded[i] <= 1

\* C6 (as stated): after the cycle that processed a RequestRefactor request
\* from S with id c, the agent's mailbox is {} and S's mailbox holds a
\* response with id c and the capability output, for every sender S.
C6_AllSenders ==
    [][\A p \in Consumers :
          CycleEnds(p) /\ IsRefactorRequest(Observed(p))
             => /\ file'[Own(p)] = EmptyObj
                /\ IsResponseTo(file'[Observed(p).from], Observed(p), Output(p))]_vars

\* C6 (amended): the same for every sender S other than the agent itself.
C6_OtherSenders ==
    [][\A p \in Consumers :
          (/\ CycleEnds(p) /\ IsRefactorRequest(Observed(p))
           /\ Observed(p).from # Own(p))
             => /\ file'[Own(p)] = EmptyObj
                /\ IsResponseTo(file'[Observed(p).from], Observed(p), Output(p))]_vars

\* a cycle of p has answered the sender S: p is at rest, its mailbox is
\* empty and S holds p's response
C6_Answered ==
    \E p \in Consumers : \E S \in Names \ {Own(p)} :
        /\ AtRest(pc[p]) /\ file[Own(p)] = EmptyObj
        /\ file[S].rfrom = Own(p) /\ file[S].payload = Output(p)
        /\ file[S].id \in DOMAIN responded /\ responded[file[S].id] = 1

\* C7: the cycle that observes an envelope with an unknown method deposits
\* an Error envelope MethodNotFound with the envelope's id into the
\* mailbox of the envelope's stated sender.
C7_MethodNotFound ==
    [][\A p \in Consumers :
          (/\ CycleEnds(p) /\ WellFormed(Observed(p))
           /\ Observed(p).method # "RequestRefactor"
           /\ Observed(p).from \in Names)
             => IsError(file'[Observed(p).from], "MethodNotFound", Observed(p).id)]_vars

Rejectable(d) ==
    d.tag \in {"falsy", "nonobj"} \/ (d.tag = "obj" /\ d.jsonrpc # "2.0")

C9_Rejected ==
    [][\A p \in Consumers :
          CycleEnds(p) /\ Rejectable(Observed(p))
             => file'[Own(p)] = EmptyObj]_vars

\* C10: the cycle in which processing a RequestRefactor request raised a
\* failure ends with an Error envelope InternalError carrying the
\* request's id in a mailbox.
Failed(d) ==
    /\ WellFormed(d) /\ d.method = "RequestRefactor"
    /\ Dispatch(d) \in {"attr_error", "open_error"}

C10_InternalError ==
    [][\A p \in Consumers :
          CycleEnds(p) /\ Failed(Observed(p))
             => \E m \in Mailboxes :
                   IsError(file'[m], "InternalError", Observed(p).id)]_vars

\* the cycle of p has found its mailbox absent or of length zero
FoundEmpty(p) ==
    \/ pc[p] \in {"c66", "c67", "g73", "g74", "g75"}
    \/ pc[p] = "g16" /\ file[Own(p)].tag \in {"absent", "zero"}

\* C14: a cycle that finds the agent's mailbox absent or zero-length takes
\* up no task and ends with the file holding {}
C14_SelfHealing ==
    [][\A p \in Consumers :
        (CycleEnds(p) /\ FoundEmpty(p)) =>
            /\ file'[Own(p)] = EmptyObj
            /\ claimed' = claimed]_vars

\* the number of the most recent deposit into mailbox m (0: none yet)
Latest(m) ==
    IF \E i \in DOMAIN sentto : sentto[i] = m
    THEN CHOOSE i \in DOMAIN sentto :
            sentto[i] = m /\ \A j \in DOMAIN sentto : sentto[j] = m => j <= i
    ELSE 0

\* C15: on cycles that run one at a time, a request is taken up or answered
\* only while it is the most recent deposit into its mailbox, and then once;
\* the cycle that observes a request ends with exactly one response to it,
\* held by its sender, so of two requests deposited into one mailbox before
\* the owner's cycle only the later is processed and answered
C15_LastDepositWins ==
    [][/\ \A i \in DOMAIN claimed :
            /\ (claimed'[i] # claimed[i] =>
                    i = Latest(sentto[i]) /\ claimed'[i] = 1)
            /\ (responded'[i] # responded[i] =>
                    i = Latest(sentto[i]) /\ responded'[i] = 1)
       /\ \A p \in Consumers :
            (CycleEnds(p) /\ IsRefactorRequest(Observed(p))) =>
                /\ Observed(p).id = Latest(Own(p))
                /\ responded'[Observed(p).id] = 1
                /\ (Observed(p).from # Own(p) =>
                      IsResponseTo(file'[Observed(p).from], Observed(p),
                                   Output(p)))]_vars

\* two requests of different senders went into one mailbox before its owner
\* looked; the owner has finished a cycle: the first request was never
\* taken up, the second was answered once
C15_LaterAnswered ==
    \E m \in {ClaudeQueueFile, GeminiQueueFile} :
        /\ Len(sentto) >= 2 /\ sentto[1] = m /\ sentto[2] = m
        /\ IsRefactorRequest(sent[1]) /\ IsRefactorRequest(sent[2])
        /\ sent[1].from # sent[2].from /\ sent[2].from # m
        /\ claimed[1] = 0 /\ responded[1] = 0
        /\ claimed[2] = 1 /\ responded[2] = 1
        /\ Quiet /\ file[m] = EmptyObj
        /\ IsResponseTo(file[sent[2].from], sent[2],
                        IF m = GeminiQueueFile THEN GeminiOutput ELSE ClaudeOutput)

\* C16: the clear step of a cycle (open(QUEUE_FILE, 'w') and the dump of
\* {}) erases only the envelope the cycle read: a request that a sender
\* deposited after the read is still in the mailbox after the step
C16_NoLostUpdate ==
    [][\A p \in Consumers : \A i \in DOMAIN sent :
        (/\ pc[p] \in {"c59", "c60", "g65", "g66"} /\ pc'[p] # pc[p]
         /\ ncrash' = ncrash
         /\ IsRefactorRequest(sent[i]) /\ file[Own(p)] = sent[i]
         /\ data[p].id # i)
            => file'[Own(p)] = sent[i]]_vars

\* C17: a step of an agent's cycle changes no mailbox but the agent's own
\* and, while the cycle processes a RequestRefactor request, the mailbox
\* that the request's params.from names
C17_Frame ==
    [][\A p \in Consumers : \A m \in Mailboxes :
        (pc'[p] # pc[p] /\ file'[m] # file[m] /\ m # Own(p)) =>
            /\ Dispatch(data[p]) = "refactor"
            /\ m = (IF data[p].from = NoFrom THEN "None" ELSE data[p].from)]_vars

\* a cycle has written its response into the mailbox of the sender, which
\* is not the agent's own, and no other mailbox has come into existence
C17_Responded ==
    \E p \in Consumers :
        /\ pc[p] \in {"c59", "g65"}
        /\ data[p].from \in Names \ {Own(p)}
        /\ IsResponseTo(file[data[p].from], data[p], Output(p))
        /\ \A m \in Mailboxes \ {Own(p), data[p].from} :
              file[m] \in {Absent, EmptyObj}

\* the positions of a cycle from which no file is written
Still == \A p \in Consumers : pc[p] \in {"idle", "c12", "g14", "g16", "g20"}

\* C18: an agent deposits into another mailbox only for a request that a
\* sender deposited, never for an envelope an agent wrote, and takes up no
\* request twice; once the senders have stopped, the agents reach a state
\* from which no file is written any more
C18_Quiesces ==
    /\ [](\A p \in Consumers :
            pc[p] \in {"c54", "c55", "g60", "g61"} =>
                /\ data[p].id \in DOMAIN sent
                /\ data[p] = sent[data[p].id]
                /\ data[p].method = "RequestRefactor"
                /\ claimed[data[p].id] <= 1)
    /\ <>[]Still

\* a response of claude has arrived in the mailbox of gemini, whose loop has
\* examined it and is asleep again; no request is left anywhere
C18_ResponseIgnored ==
    /\ file[GeminiQueueFile].rfrom = "claude"
    /\ last_modified_time = mtime
    /\ Quiet
    /\ \A m \in Mailboxes : file[m].method # "RequestRefactor"

\* C19: within one run of the gemini loop the watermark never decreases and
\* never exceeds the modification time of the mailbox file; the loop goes
\* on to read the file only with a sample of the modification time that is
\* greater than the watermark, which then becomes the watermark; no request
\* is taken up or answered twice
C19_Watermark ==
    /\ [](/\ last_modified_time <= mtime
          /\ \A i \in DOMAIN claimed : claimed[i] <= 1 /\ responded[i] <= 1)
    /\ [][/\ last_modified_time' >= last_modified_time
          /\ \A p \in GeminiProcs :
                (pc[p] = "g16" /\ pc'[p] = "g20") =>
                    /\ current_modified_time > last_modified_time
                    /\ current_modified_time <= mtime
                    /\ last_modified_time' = current_modified_time]_vars

\* the loop has answered a request, cleared its mailbox and polls again:
\* the sample equals the watermark, the gate stays shut
C19_GateShut ==
    /\ pc["g1"] = "g16"
    /\ file[GeminiQueueFile] = EmptyObj
    /\ current_modified_time = last_modified_time
    /\ last_modified_time = mtime
    /\ \E i \in DOMAIN responded :
          sentto[i] = GeminiQueueFile /\ claimed[i] = 1 /\ responded[i] = 1

\* ------------------------------------------------- registry properties
\* a step of the registry that probes the i-th configured agent
Probes(i) == rpc = "r38" /\ agent_info = i

\* C11: a failed probe of an agent without an entry creates none, and a
\* failed probe of an agent whose entry is active sets the status to
\* inactive and leaves endpoint and capabilities as they were
C11_FailedProbe ==
    [][\A i \in DOMAIN AGENTS :
        (Probes(i) /\ probed'[AGENTS[i].id] # "ok") =>
            /\ (REGISTERED_AGENTS[AGENTS[i].id] = NoEntry
                    => REGISTERED_AGENTS'[AGENTS[i].id] = NoEntry)
            /\ (REGISTERED_AGENTS[AGENTS[i].id].status = "active"
                    => REGISTERED_AGENTS'[AGENTS[i].id] =
                         [REGISTERED_AGENTS[AGENTS[i].id]
                             EXCEPT !.status = "inactive"])]_vars

\* C12: no probe failure of any kind is raised out of the probe: every
\* probe is followed by the probe of the next configured agent or by the
\* end of the round, and the registry loop never terminates
C12_NeverRaised ==
    /\ rpc # "dead"
    /\ (rpc = "r39" => \A a \in AgentIds : probed[a] # "none")

\* C13: an entry is active exactly when the most recent probe of its agent
\* succeeded, and its capabilities are those of the most recent successful
\* probe
C13_ActiveIffLastProbeOk ==
    \A a \in AgentIds :
        REGISTERED_AGENTS[a] # NoEntry =>
            /\ (REGISTERED_AGENTS[a].status = "active" <=> probed[a] = "ok")
            /\ REGISTERED_AGENTS[a].capabilities = fetched[a]

====
